---------------------------- MODULE Spec2Model ----------------------------
(***************************************************************************)
(* Model of the attendance-upload workflow of src/src/App.tsx: the form    *)
(* state of the App component, its event handlers, the asynchronous file   *)
(* reader and the asynchronous submission (fetch, then response.json()).   *)
(*                                                                         *)
(* JavaScript strings that the code takes apart (the two dates) are        *)
(* sequences of one-character strings; the other strings are TLA+ strings. *)
(* A nullable value (result, a response, a parsed body, an optional        *)
(* message) is a sequence of length at most one: <<>> is null/undefined/   *)
(* absent, <<v>> is the value v.                                           *)
(*                                                                         *)
(* A handler can run exactly when the element it is attached to is         *)
(* rendered and not disabled.  The confirmation overlay is rendered inside *)
(* the form view, on top of the form: the inputs under it stay in the      *)
(* document, so their handlers stay enabled while it is shown.  The state  *)
(* updates of one handler, or of one continuation of processAttendance,    *)
(* are one step.  isDragOver only styles the drop zone and is left out.    *)
(*                                                                         *)
(* readers is the set of files whose FileReader has been started and has   *)
(* not fired onload yet; inflight holds the calls of processAttendance     *)
(* that are suspended at an await, with the request they sent and the      *)
(* response once fetch has resolved; issued counts the POSTs sent;         *)
(* lastEvent names the handler or continuation that ran last; download is  *)
(* the text of the CSV file downloaded last, if any (its file name, which  *)
(* holds the current date, is left out).                                   *)
(***************************************************************************)
EXTENDS Integers, Sequences, FiniteSets, TLC

VARIABLES startDate, endDate, password, file, fileContent, isLoading,
          result, error, entryMode, showConfirmation,
          readers, inflight, issued, lastEvent, download

vars == <<startDate, endDate, password, file, fileContent, isLoading,
          result, error, entryMode, showConfirmation,
          readers, inflight, issued, lastEvent, download>>

formVars == <<startDate, endDate, password, file, fileContent, entryMode>>

-----------------------------------------------------------------------------
(* Bounds of the model.                                                    *)

\* confirm clicks (requests issued) explored in one run
MaxRequests == 2
\* distinct files the user can select or drop
NumFiles == 2

-----------------------------------------------------------------------------
(* Input domains.                                                          *)

EmptyDate == <<>>
Date1 == <<"2","0","2","4","-","0","3","-","0","5">>
Date2 == <<"2","0","2","4","-","1","2","-","3","1">>

\* values of the two <input type="date">: '' or an ISO date
StartDateInputs == {EmptyDate, Date1}
EndDateInputs == {EmptyDate, Date2}

PasswordInputs == {"", "secret"}

\* what the user can type or paste into the textarea
TypedTexts == {"", "typed rows"}

\* text of each selectable file; the second file is empty
FileTexts == <<"rows-A", "", "rows-B", "rows-C">>
Files == 1..NumFiles
NoFile == 0
FileText(f) == FileTexts[f]

EntryModes == {"manual", "upload"}

\* parsed JSON bodies the endpoint can answer with (ProcessResult): the status,
\* the optional message field, unmatched_count (0 when absent) and misc_records
\* (<<>> when absent or empty)
\* without unmatched records
PlainBody(status, message) ==
    [status |-> status, message |-> message, unmatched_count |-> 0, misc_records |-> <<>>]

Bodies ==
    { PlainBody("success", <<>>),
      PlainBody("error", <<>>),
      PlainBody("error", <<"">>),
      PlainBody("error", <<"bad credential">>) }

\* raw body of an HTTP response: <<>> does not parse as JSON, <<b>> parses to b
RawBodies == {<<>>} \cup {<<b>> : b \in Bodies}

\* HTTP responses: response.ok and the raw body
Responses == [ok : BOOLEAN, body : RawBodies]

-----------------------------------------------------------------------------
(* Fixed display strings of the component (written without the accents of  *)
(* the source strings).                                                    *)

MsgDates == "Por favor ingresa las fechas de inicio y fin"
MsgPassword == "Por favor ingresa la contrasena"
MsgContent == "Por favor sube un archivo con los datos"
MsgProcessing == "Error al procesar los datos"
MsgConnection == "Error de conexion con el servidor. Verifica que el servicio este activo."

-----------------------------------------------------------------------------
(* Date Formatter.                                                         *)

Undefined == <<"u","n","d","e","f","i","n","e","d">>

\* index of the first occurrence of sep in s, or Len(s) + 1
RECURSIVE IndexOf(_, _, _)
IndexOf(s, sep, i) ==
    IF i > Len(s) THEN i
    ELSE IF s[i] = sep THEN i
    ELSE IndexOf(s, sep, i + 1)

\* String.prototype.split on a one-character separator
RECURSIVE Split(_, _)
Split(s, sep) ==
    LET i == IndexOf(s, sep, 1) IN
    IF i > Len(s) THEN <<s>>
    ELSE <<SubSeq(s, 1, i - 1)>> \o Split(SubSeq(s, i + 1, Len(s)), sep)

\* array destructuring: a missing element is undefined, printed "undefined"
Part(parts, k) == IF k <= Len(parts) THEN parts[k] ELSE Undefined

\* the decimal digits, DigitChars[n + 1] is the digit n
DigitChars == <<"0","1","2","3","4","5","6","7","8","9">>

DigitValue(c) == CHOOSE n \in 0..9 : DigitChars[n + 1] = c

IsDigit(c) == \E n \in 0..9 : DigitChars[n + 1] = c

\* Number to string, as a template literal prints a non-negative integer
RECURSIVE NumberToString(_)
NumberToString(n) ==
    IF n < 10 THEN <<DigitChars[n + 1]>>
    ELSE NumberToString(n \div 10) \o <<DigitChars[(n % 10) + 1]>>

\* value of the digits s[1..k] read as a decimal number
RECURSIVE DigitsValue(_, _)
DigitsValue(s, k) ==
    IF k = 0 THEN 0 ELSE 10 * DigitsValue(s, k - 1) + DigitValue(s[k])

\* length of the longest run of digits of s that starts at position 1, scanned from i
RECURSIVE DigitPrefix(_, _)
DigitPrefix(s, i) ==
    IF i <= Len(s) /\ IsDigit(s[i]) THEN DigitPrefix(s, i + 1) ELSE i - 1

\* parseInt on an unsigned string without leading blanks: the number its
\* leading digits spell, <<n>>, or NaN, <<>>, when it starts with no digit
parseInt(s) ==
    LET k == DigitPrefix(s, 1) IN
    IF k = 0 THEN <<>> ELSE <<DigitsValue(s, k)>>

NaN == <<"N","a","N">>

\* the months table of formatDateForDisplay
months ==
    << <<"e","n","e","r","o">>,
       <<"f","e","b","r","e","r","o">>,
       <<"m","a","r","z","o">>,
       <<"a","b","r","i","l">>,
       <<"m","a","y","o">>,
       <<"j","u","n","i","o">>,
       <<"j","u","l","i","o">>,
       <<"a","g","o","s","t","o">>,
       <<"s","e","p","t","i","e","m","b","r","e">>,
       <<"o","c","t","u","b","r","e">>,
       <<"n","o","v","i","e","m","b","r","e">>,
       <<"d","i","c","i","e","m","b","r","e">> >>

\* mutant of formatDateForDisplay: the month number indexes the table as it is
formatDateForDisplayOffByOne(dateStr) ==
    IF dateStr = <<>> THEN <<>>
    ELSE
      LET parts == Split(dateStr, "-")
          year  == Part(parts, 1)
          month == Part(parts, 2)
          day   == Part(parts, 3)
          d     == parseInt(day)
          m     == parseInt(month)
          index == IF m = <<>> THEN <<>> ELSE <<m[1]>>
      IN  (IF d = <<>> THEN NaN ELSE NumberToString(d[1]))
            \o <<" ","d","e"," ">>
            \o (IF index # <<>> /\ index[1] \in 0..11 THEN months[index[1] + 1]
                ELSE Undefined)
            \o <<" ","d","e"," ">> \o year

\* months[i] of the 0-based table is months[i + 1] here; an index that is NaN
\* or outside the table gives undefined
formatDateForDisplay(dateStr) ==
    IF dateStr = <<>> THEN <<>>
    ELSE
      LET parts == Split(dateStr, "-")
          year  == Part(parts, 1)
          month == Part(parts, 2)
          day   == Part(parts, 3)
          d     == parseInt(day)
          m     == parseInt(month)
          index == IF m = <<>> THEN <<>> ELSE <<m[1] - 1>>
      IN  (IF d = <<>> THEN NaN ELSE NumberToString(d[1]))
            \o <<" ","d","e"," ">>
            \o (IF index # <<>> /\ index[1] \in 0..11 THEN months[index[1] + 1]
                ELSE Undefined)
            \o <<" ","d","e"," ">> \o year

\* mutant of formatDateForAPI: day before month
formatDateForAPIDayFirst(dateStr) ==
    LET parts == Split(dateStr, "-")
        year  == Part(parts, 1)
        month == Part(parts, 2)
        day   == Part(parts, 3)
    IN  day \o <<"/">> \o month \o <<"/">> \o year

formatDateForAPI(dateStr) ==
    LET parts == Split(dateStr, "-")
        year  == Part(parts, 1)
        month == Part(parts, 2)
        day   == Part(parts, 3)
    IN  month \o <<"/">> \o day \o <<"/">> \o year

-----------------------------------------------------------------------------
(* Derived render state.                                                   *)

\* mutant of FormView: the form stays rendered while a submission is loading
FormViewIgnoringLoading == result = <<>>

\* VIEW 1: the input form is rendered
FormView == ~isLoading /\ result = <<>>

\* VIEW 2: the loading view is rendered
LoadingView == isLoading

\* VIEW 3: the results view (with the reset button) is rendered
ResultsView == result # <<>> /\ result[1].status = "success"

isFormValid == startDate # <<>> /\ endDate # <<>> /\ password # "" /\ fileContent # ""

\* the submit button is rendered and not disabled
SubmitButtonEnabled == FormView /\ isFormValid

\* mutant of OverlayVisible: the overlay's buttons do not depend on the flag
OverlayAlwaysVisible == ~isLoading /\ result = <<>>

\* the confirmation overlay, with its two buttons, is rendered
OverlayVisible == FormView /\ showConfirmation

Init ==
    /\ startDate = <<>>
    /\ endDate = <<>>
    /\ password = ""
    /\ file = NoFile
    /\ fileContent = ""
    /\ isLoading = FALSE
    /\ result = <<>>
    /\ error = ""
    /\ entryMode = "manual"
    /\ showConfirmation = FALSE
    /\ readers = {}
    /\ inflight = <<>>
    /\ issued = 0
    /\ lastEvent = "init"
    /\ download = <<>>

workflowVars == <<isLoading, result, error, showConfirmation, inflight, issued>>

-----------------------------------------------------------------------------
(* Form edits.                                                             *)

SetStartDate(d) ==
    /\ FormView
    /\ startDate' = d
    /\ lastEvent' = "setStartDate"
    /\ UNCHANGED download
    /\ UNCHANGED <<endDate, password, file, fileContent, entryMode, readers>>
    /\ UNCHANGED workflowVars

SetEndDate(d) ==
    /\ FormView
    /\ endDate' = d
    /\ lastEvent' = "setEndDate"
    /\ UNCHANGED download
    /\ UNCHANGED <<startDate, password, file, fileContent, entryMode, readers>>
    /\ UNCHANGED workflowVars

SetPassword(p) ==
    /\ FormView
    /\ password' = p
    /\ lastEvent' = "setPassword"
    /\ UNCHANGED download
    /\ UNCHANGED <<startDate, endDate, file, fileContent, entryMode, readers>>
    /\ UNCHANGED workflowVars

\* the textarea exists in manual mode only
SetFileContent(t) ==
    /\ FormView
    /\ entryMode = "manual"
    /\ fileContent' = t
    /\ lastEvent' = "setFileContent"
    /\ UNCHANGED download
    /\ UNCHANGED <<startDate, endDate, password, file, entryMode, readers>>
    /\ UNCHANGED workflowVars

handleModeChange(mode) ==
    /\ FormView
    /\ entryMode' = mode
    /\ fileContent' = ""
    /\ file' = NoFile
    /\ error' = ""
    /\ lastEvent' = "handleModeChange"
    /\ UNCHANGED download
    /\ UNCHANGED <<startDate, endDate, password, readers>>
    /\ UNCHANGED <<isLoading, result, showConfirmation, inflight, issued>>

\* handleFileSelect / handleDrop: the upload zone exists in upload mode only;
\* a FileReader is started whose onload fires later
handleFileRead(f) ==
    /\ FormView
    /\ entryMode = "upload"
    /\ file' = f
    /\ readers' = readers \cup {f}
    /\ lastEvent' = "handleFileRead"
    /\ UNCHANGED download
    /\ UNCHANGED <<startDate, endDate, password, fileContent, entryMode>>
    /\ UNCHANGED workflowVars

\* reader.onload of a started reader
ReaderOnload(f) ==
    /\ f \in readers
    /\ readers' = readers \ {f}
    /\ fileContent' = FileText(f)
    /\ lastEvent' = "readerOnload"
    /\ UNCHANGED download
    /\ UNCHANGED <<startDate, endDate, password, file, entryMode>>
    /\ UNCHANGED workflowVars

-----------------------------------------------------------------------------
(* Input Validator and Confirmation Gate.                                  *)

\* mutant of ValidationError: the credential is checked before the dates
ValidationErrorPasswordFirst ==
    IF password = "" THEN MsgPassword
    ELSE IF startDate = <<>> \/ endDate = <<>> THEN MsgDates
    ELSE IF fileContent = "" THEN MsgContent
    ELSE ""

\* the message of the first failing check, "" when every check passes
ValidationError ==
    IF startDate = <<>> \/ endDate = <<>> THEN MsgDates
    ELSE IF password = "" THEN MsgPassword
    ELSE IF fileContent = "" THEN MsgContent
    ELSE ""

\* mutant of handleSubmitRequest: a passing validation leaves the old error
handleSubmitRequestKeepsError ==
    /\ error' = IF ValidationError = "" THEN error ELSE ValidationError
    /\ showConfirmation' = IF ValidationError = "" THEN TRUE ELSE showConfirmation
    /\ lastEvent' = "handleSubmitRequest"
    /\ UNCHANGED download
    /\ UNCHANGED <<startDate, endDate, password, file, fileContent, entryMode>>
    /\ UNCHANGED <<isLoading, result, readers, inflight, issued>>

\* body of the handler
handleSubmitRequest ==
    /\ error' = ValidationError
    /\ showConfirmation' = IF ValidationError = "" THEN TRUE ELSE showConfirmation
    /\ lastEvent' = "handleSubmitRequest"
    /\ UNCHANGED download
    /\ UNCHANGED formVars
    /\ UNCHANGED <<isLoading, result, readers, inflight, issued>>

\* click on "Procesar Asistencia"
SubmitClick ==
    /\ SubmitButtonEnabled
    /\ handleSubmitRequest

\* mutant of CancelClick: going back also empties the content
CancelClickClearsContent ==
    /\ OverlayVisible
    /\ showConfirmation' = FALSE
    /\ fileContent' = ""
    /\ lastEvent' = "cancel"
    /\ UNCHANGED download
    /\ UNCHANGED <<startDate, endDate, password, file, entryMode>>
    /\ UNCHANGED <<isLoading, result, error, readers, inflight, issued>>

\* click on "Regresar"
CancelClick ==
    /\ OverlayVisible
    /\ showConfirmation' = FALSE
    /\ lastEvent' = "cancel"
    /\ UNCHANGED download
    /\ UNCHANGED formVars
    /\ UNCHANGED <<isLoading, result, error, readers, inflight, issued>>

-----------------------------------------------------------------------------
(* Submission Orchestrator.                                                *)

\* mutant of Payload: the two dates are sent in each other's field
PayloadSwapped ==
    [ password     |-> password,
      start_date   |-> formatDateForAPI(endDate),
      end_date     |-> formatDateForAPI(startDate),
      file_content |-> fileContent,
      entry_mode   |-> entryMode ]

Payload ==
    [ password     |-> password,
      start_date   |-> formatDateForAPI(startDate),
      end_date     |-> formatDateForAPI(endDate),
      file_content |-> fileContent,
      entry_mode   |-> entryMode ]

\* mutant of processAttendance: the confirmation flag is left on
processAttendanceKeepsOverlay ==
    /\ showConfirmation' = showConfirmation
    /\ result' = <<>>
    /\ isLoading' = TRUE
    /\ inflight' = Append(inflight, [payload |-> Payload, response |-> <<>>])
    /\ issued' = issued + 1
    /\ lastEvent' = "processAttendance"
    /\ UNCHANGED download
    /\ UNCHANGED <<startDate, endDate, password, file, fileContent, entryMode>>
    /\ UNCHANGED <<error, readers>>

\* processAttendance up to its first await: the POST is issued
processAttendance ==
    /\ showConfirmation' = FALSE
    /\ result' = <<>>
    /\ isLoading' = TRUE
    /\ inflight' = Append(inflight, [payload |-> Payload, response |-> <<>>])
    /\ issued' = issued + 1
    /\ lastEvent' = "processAttendance"
    /\ UNCHANGED download
    /\ UNCHANGED formVars
    /\ UNCHANGED <<error, readers>>

\* click on "Si, Procesar"
ConfirmClick ==
    /\ OverlayVisible
    /\ issued < MaxRequests
    /\ processAttendance

RemoveAt(s, i) == SubSeq(s, 1, i - 1) \o SubSeq(s, i + 1, Len(s))

\* mutant of FetchRejects: a failed call is sent again instead of reported
FetchRejectsRetries(i) ==
    /\ i \in DOMAIN inflight
    /\ inflight[i].response = <<>>
    /\ issued < MaxRequests
    /\ issued' = issued + 1
    /\ lastEvent' = "fetchRejected"
    /\ UNCHANGED download
    /\ UNCHANGED <<startDate, endDate, password, file, fileContent, entryMode>>
    /\ UNCHANGED <<isLoading, error, inflight, result, showConfirmation, readers>>

\* await fetch(...) rejects: catch, then finally
FetchRejects(i) ==
    /\ i \in DOMAIN inflight
    /\ inflight[i].response = <<>>
    /\ error' = MsgConnection
    /\ isLoading' = FALSE
    /\ inflight' = RemoveAt(inflight, i)
    /\ lastEvent' = "fetchRejected"
    /\ UNCHANGED download
    /\ UNCHANGED formVars
    /\ UNCHANGED <<result, showConfirmation, readers, issued>>

\* await fetch(...) resolves with a response; response.json() is then awaited
FetchResolves(i, r) ==
    /\ i \in DOMAIN inflight
    /\ inflight[i].response = <<>>
    /\ inflight' = [inflight EXCEPT ![i].response = <<r>>]
    /\ lastEvent' = "fetchResolved"
    /\ UNCHANGED download
    /\ UNCHANGED formVars
    /\ UNCHANGED <<isLoading, result, error, showConfirmation, readers, issued>>

\* data.message || 'Error al procesar los datos'
MessageOrDefault(data) ==
    IF data.message # <<>> /\ data.message[1] # "" THEN data.message[1] ELSE MsgProcessing

\* mutant of JsonSettles: no finally block, the loading flag stays on
JsonSettlesNoFinally(i) ==
    /\ i \in DOMAIN inflight
    /\ inflight[i].response # <<>>
    /\ LET r == inflight[i].response[1] IN
         /\ error' = IF r.body = <<>> THEN MsgConnection
                     ELSE IF ~r.ok THEN MessageOrDefault(r.body[1])
                     ELSE error
         /\ result' = IF r.body # <<>> /\ r.ok THEN r.body ELSE result
    /\ isLoading' = isLoading
    /\ inflight' = RemoveAt(inflight, i)
    /\ lastEvent' = "jsonSettled"
    /\ UNCHANGED download
    /\ UNCHANGED <<startDate, endDate, password, file, fileContent, entryMode>>
    /\ UNCHANGED <<showConfirmation, readers, issued>>

\* await response.json() settles: it rejects on a body that is not JSON (catch),
\* otherwise the !response.ok branch or setResult(data); then finally
JsonSettles(i) ==
    /\ i \in DOMAIN inflight
    /\ inflight[i].response # <<>>
    /\ LET r == inflight[i].response[1] IN
         /\ error' = IF r.body = <<>> THEN MsgConnection
                     ELSE IF ~r.ok THEN MessageOrDefault(r.body[1])
                     ELSE error
         /\ result' = IF r.body # <<>> /\ r.ok THEN r.body ELSE result
    /\ isLoading' = FALSE
    /\ inflight' = RemoveAt(inflight, i)
    /\ lastEvent' = "jsonSettled"
    /\ UNCHANGED download
    /\ UNCHANGED formVars
    /\ UNCHANGED <<showConfirmation, readers, issued>>

-----------------------------------------------------------------------------
(* Reset.                                                                  *)

\* mutant of resetForm: the credential is cleared with the rest of the form
resetFormClearsPassword ==
    /\ file' = NoFile
    /\ fileContent' = ""
    /\ result' = <<>>
    /\ error' = ""
    /\ startDate' = <<>>
    /\ endDate' = <<>>
    /\ password' = ""
    /\ lastEvent' = "resetForm"
    /\ UNCHANGED download
    /\ UNCHANGED <<entryMode, readers>>
    /\ UNCHANGED <<isLoading, showConfirmation, inflight, issued>>

resetForm ==
    /\ file' = NoFile
    /\ fileContent' = ""
    /\ result' = <<>>
    /\ error' = ""
    /\ startDate' = <<>>
    /\ endDate' = <<>>
    /\ lastEvent' = "resetForm"
    /\ UNCHANGED download
    /\ UNCHANGED <<password, entryMode, readers>>
    /\ UNCHANGED <<isLoading, showConfirmation, inflight, issued>>

\* click on "Subir Otro Archivo"
ResetClick ==
    /\ ResultsView
    /\ resetForm

-----------------------------------------------------------------------------

NetworkCompletion ==
    \/ \E i \in 1..MaxRequests : FetchRejects(i)
    \/ \E i \in 1..MaxRequests, r \in Responses : FetchResolves(i, r)
    \/ \E i \in 1..MaxRequests : JsonSettles(i)

Next ==
    \/ \E d \in StartDateInputs : SetStartDate(d)
    \/ \E d \in EndDateInputs : SetEndDate(d)
    \/ \E p \in PasswordInputs : SetPassword(p)
    \/ \E t \in TypedTexts : SetFileContent(t)
    \/ \E m \in EntryModes : handleModeChange(m)
    \/ \E f \in Files : handleFileRead(f)
    \/ \E f \in Files : ReaderOnload(f)
    \/ SubmitClick
    \/ CancelClick
    \/ ConfirmClick
    \/ NetworkCompletion
    \/ ResetClick

Spec == Init /\ [][Next]_vars

\* the network always answers or fails in the end: every pending await settles
FairSpec == Spec /\ WF_vars(NetworkCompletion)

\* handleSubmitRequest called on any form the component can hold, also one on
\* which the submit button is disabled (no click reaches the handler there)
SubmitHandlerCall ==
    /\ FormView
    /\ handleSubmitRequest

NextHandler == Next \/ SubmitHandlerCall

SpecHandler == Init /\ [][NextHandler]_vars

-----------------------------------------------------------------------------
(* The date formatter on the dates a date input can hold.                  *)

\* String.prototype.padStart(w, '0') of a number
RECURSIVE PadZero(_, _)
PadZero(digits, w) == IF Len(digits) >= w THEN digits ELSE PadZero(<<"0">> \o digits, w)

\* value of an <input type="date"> for the calendar date y-m-d
IsoDate(y, m, d) ==
    PadZero(NumberToString(y), 4) \o <<"-">> \o PadZero(NumberToString(m), 2)
        \o <<"-">> \o PadZero(NumberToString(d), 2)

DaysInMonth(m) == IF m = 2 THEN 28 ELSE IF m \in {4, 6, 9, 11} THEN 30 ELSE 31

\* the calendar dates entered as start date: <<year, month, day>>
StartCalendarDates ==
    {t \in {987, 2024, 12024} \X (1..12) \X {1, 5, 10, 28, 31} : t[3] <= DaysInMonth(t[2])}

\* the calendar dates entered as end date
EndCalendarDates == {<<2024, 12, 31>>, <<2025, 1, 9>>}

IsoStartDates == {IsoDate(t[1], t[2], t[3]) : t \in StartCalendarDates}
IsoEndDates == {IsoDate(t[1], t[2], t[3]) : t \in EndCalendarDates}

\* a form with credential and content filled in and any of the dates entered
InitDates ==
    /\ startDate \in IsoStartDates
    /\ endDate \in IsoEndDates
    /\ password = "secret"
    /\ file = NoFile
    /\ fileContent = "typed rows"
    /\ isLoading = FALSE
    /\ result = <<>>
    /\ error = ""
    /\ entryMode = "manual"
    /\ showConfirmation = FALSE
    /\ readers = {}
    /\ inflight = <<>>
    /\ issued = 0
    /\ lastEvent = "setFileContent"
    /\ download = <<>>

NextDates ==
    \/ \E d \in {EmptyDate, Date1} : SetStartDate(d)
    \/ \E d \in {EmptyDate, Date2} : SetEndDate(d)
    \/ SubmitClick
    \/ CancelClick
    \/ ConfirmClick

SpecDates == InitDates /\ [][NextDates]_vars

-----------------------------------------------------------------------------
(* Workflow variants of the specification, read off the flags.             *)

Submitting == isLoading
AwaitingConfirmation == ~isLoading /\ result = <<>> /\ showConfirmation
Succeeded == ~isLoading /\ result # <<>>
Failed == ~isLoading /\ result = <<>> /\ error # ""
Editing == ~isLoading /\ result = <<>> /\ ~showConfirmation

\* the step settles the only in-flight call, which had received response r
SettlesResponse(r) ==
    /\ Len(inflight) = 1
    /\ inflight[1].response = <<r>>
    /\ inflight' = <<>>

-----------------------------------------------------------------------------
(* Claims.                                                                 *)

\* C1: at most one submission request is in flight in every reachable state,
\* and while one is in flight (Submitting) neither the confirm button nor the
\* submit button is available, so no second request can be started.
C1_SingleFlight ==
    /\ Len(inflight) <= 1
    /\ (inflight # <<>>) = isLoading
    /\ isLoading => (~OverlayVisible /\ ~SubmitButtonEnabled)

\* a second request is in flight after the first one has settled
C1_Witness == Len(inflight) = 1 /\ isLoading /\ issued = 2

\* C2: a request is issued, and Submitting entered, only by the confirm action
\* taken while the confirmation is shown (AwaitingConfirmation), and the
\* confirmation is shown only by a submit action on a form that passed
\* validation.
C2_ConfirmationGate ==
    /\ [][(issued' # issued \/ Len(inflight') > Len(inflight)
              \/ (~isLoading /\ isLoading'))
            => (AwaitingConfirmation /\ lastEvent' = "processAttendance"
                /\ issued' = issued + 1 /\ Submitting')]_vars
    /\ [][(~showConfirmation /\ showConfirmation')
            => (Editing /\ isFormValid /\ lastEvent' = "handleSubmitRequest")]_vars

\* a request has just been issued by the confirm action
C2_Witness == lastEvent = "processAttendance" /\ isLoading /\ Len(inflight) = 1

\* C3: handleSubmitRequest run in Editing shows the confirmation iff the two
\* dates, the credential and the content are all non-empty; otherwise the
\* workflow stays in Editing and the error is the message of the first failing
\* check in the order dates, credential, content.
C3_Validation ==
    [][(Editing /\ lastEvent' = "handleSubmitRequest")
        => /\ showConfirmation' =
                (startDate # <<>> /\ endDate # <<>> /\ password # "" /\ fileContent # "")
           /\ (AwaitingConfirmation' \/ Editing')
           /\ (startDate = <<>> \/ endDate = <<>>) => error' = MsgDates
           /\ (startDate # <<>> /\ endDate # <<>> /\ password = "")
                => error' = MsgPassword
           /\ (startDate # <<>> /\ endDate # <<>> /\ password # "" /\ fileContent = "")
                => error' = MsgContent
           /\ showConfirmation' => error' = ""]_vars

\* submit with a date and the credential both missing: the date message
C3_Witness ==
    /\ lastEvent = "handleSubmitRequest"
    /\ Editing
    /\ endDate = <<>> /\ password = "" /\ fileContent # ""
    /\ error = MsgDates

\* C4: right after the confirm action the workflow is Submitting with the
\* confirmation flag off, no stored result and an empty error message.
C4_ConfirmEffect ==
    lastEvent = "processAttendance"
        => (isLoading /\ ~showConfirmation /\ result = <<>> /\ error = "")

\* the confirm action of a second submission (the first one has settled)
C4_Witness == lastEvent = "processAttendance" /\ issued = 2 /\ isLoading

\* C5: whenever the call resolves with a 2xx response the workflow becomes
\* Succeeded with a stored result, which is the parsed body when the body
\* parses, and the error message is left as it was.
C5_SuccessOn2xx ==
    [][\A r \in Responses :
        (SettlesResponse(r) /\ r.ok)
            => (Succeeded' /\ result' # <<>> /\ (r.body # <<>> => result' = r.body)
                /\ error' = error)]_vars

\* C6: whenever the call resolves with a non-2xx response the workflow becomes
\* Failed with no stored result and the error is the body's message field when
\* the body has a (non-empty) one, the default processing-failed message
\* otherwise.
C6_FailureOnNon2xx ==
    [][\A r \in Responses :
        (SettlesResponse(r) /\ ~r.ok)
            => (Failed' /\ result' = <<>>
                /\ error' = IF r.body # <<>> /\ r.body[1].message # <<>>
                                  /\ r.body[1].message[1] # ""
                             THEN r.body[1].message[1]
                             ELSE MsgProcessing)]_vars

\* C7: a call that could not complete leaves the workflow Failed with the
\* connection-error message and no result, and a call that returned an HTTP
\* response never ends with the connection-error message.
C7_ConnectionMessage ==
    /\ [][(Len(inflight) = 1 /\ inflight[1].response = <<>> /\ inflight' = <<>>)
            => (Failed' /\ result' = <<>> /\ error' = MsgConnection)]_vars
    /\ [][\A r \in Responses : SettlesResponse(r) => error' # MsgConnection]_vars

\* C8: every Submitting state is followed by Succeeded or Failed with the
\* loading flag off, and the loading flag is only ever turned off by the
\* settling of the call (no cancel, timeout or abort).
C8_Settles ==
    /\ Submitting ~> (Succeeded \/ Failed)
    /\ [][(isLoading /\ ~isLoading')
            => (lastEvent' \in {"fetchRejected", "jsonSettled"}
                /\ Len(inflight') < Len(inflight)
                /\ (Succeeded' \/ Failed'))]_vars

\* a submission has settled in Succeeded
C8_Witness == lastEvent = "jsonSettled" /\ Succeeded /\ inflight = <<>>

\* C9: the reset action leaves the workflow in Editing with no result, an
\* empty error, no file, empty content and empty dates, and keeps the
\* credential and the entry mode.
C9_Reset ==
    [][(lastEvent' = "resetForm" /\ result # <<>>)
        => (Editing' /\ result' = <<>> /\ error' = "" /\ file' = NoFile
            /\ fileContent' = "" /\ startDate' = <<>> /\ endDate' = <<>>
            /\ password' = password /\ entryMode' = entryMode)]_vars

\* reset has run and the credential is still there, in upload mode
C9_Witness ==
    /\ lastEvent = "resetForm"
    /\ password = "secret" /\ entryMode = "upload"
    /\ startDate = <<>> /\ fileContent = ""

\* C10: in every state with a stored result the reset button is rendered, so
\* the reset action is enabled.
C10_ResetAvailable == result # <<>> => (ResultsView /\ ENABLED ResetClick)

\* C11: the loading flag is never on while a result is stored, the
\* confirmation flag is never on while loading or while a result is stored,
\* and a stored result never comes with a non-empty error message: exactly
\* one of the five workflow variants holds.
C11_OneVariant ==
    /\ ~(isLoading /\ result # <<>>)
    /\ ~(showConfirmation /\ isLoading)
    /\ ~(showConfirmation /\ result # <<>>)
    /\ ~(result # <<>> /\ error # "")
    /\ Cardinality({v \in {"Editing", "AwaitingConfirmation", "Submitting",
                            "Succeeded", "Failed"} :
           \/ v = "Editing" /\ Editing /\ error = ""
           \/ v = "AwaitingConfirmation" /\ AwaitingConfirmation
           \/ v = "Submitting" /\ Submitting
           \/ v = "Succeeded" /\ Succeeded
           \/ v = "Failed" /\ Failed /\ ~showConfirmation}) = 1

\* a second submission succeeded after the first one had failed or been reset
C11_Witness == Succeeded /\ issued = 2 /\ lastEvent = "jsonSettled"

\* C12: a request is issued by a confirm action only, one per confirm action;
\* the settling of a call issues none, and after a Failed outcome the next
\* request takes a new submit and a new confirm.
C12_OnePostPerConfirm ==
    /\ [][(issued' # issued \/ Len(inflight') > Len(inflight))
            => (lastEvent' = "processAttendance" /\ issued' = issued + 1
                /\ Len(inflight') = Len(inflight) + 1)]_vars
    /\ [][(lastEvent' = "processAttendance" /\ showConfirmation)
            => (issued' = issued + 1 /\ Len(inflight') = Len(inflight) + 1)]_vars
    /\ [][(isLoading /\ ~isLoading')
            => (issued' = issued /\ inflight' = <<>> /\ ~showConfirmation')]_vars
    /\ [][(Failed /\ ~showConfirmation /\ issued' # issued) => FALSE]_vars

\* a second request has been issued after the first call failed
C12_Witness ==
    /\ issued = 2 /\ isLoading
    /\ error = "" /\ lastEvent = "processAttendance"

\* C16: the request issued by the confirm action carries the credential, the
\* wire format of the two dates, the content and the entry mode as they are at
\* that moment, and no later step changes a request already issued.
C16_PayloadSnapshot ==
    /\ [][(issued' = issued + 1)
            => LET req == inflight'[Len(inflight')].payload IN
               /\ req.password = password
               /\ req.start_date = formatDateForAPI(startDate)
               /\ req.end_date = formatDateForAPI(endDate)
               /\ req.file_content = fileContent
               /\ req.entry_mode = entryMode
               /\ (startDate = Date1
                     => req.start_date = <<"0","3","/","0","5","/","2","0","2","4">>)
               /\ (endDate = Date2
                     => req.end_date = <<"1","2","/","3","1","/","2","0","2","4">>)]_vars
    /\ [][(inflight # <<>> /\ inflight' # <<>>)
            => inflight'[1].payload = inflight[1].payload]_vars

\* a file read completed while the request was in flight: the form content
\* differs from the content that was sent
C16_Witness ==
    /\ inflight # <<>>
    /\ lastEvent = "readerOnload"
    /\ inflight[1].payload.file_content # fileContent
    /\ inflight[1].payload.start_date = <<"0","3","/","0","5","/","2","0","2","4">>

\* C18: the cancel/back action taken in AwaitingConfirmation leaves the
\* workflow in Editing, issues no request and changes neither the form fields
\* nor the result nor the error.
C18_Cancel ==
    [][(lastEvent' = "cancel" /\ showConfirmation)
        => (AwaitingConfirmation /\ Editing'
            /\ issued' = issued /\ inflight' = inflight
            /\ startDate' = startDate /\ endDate' = endDate
            /\ password' = password /\ fileContent' = fileContent
            /\ file' = file /\ entryMode' = entryMode
            /\ result' = result /\ error' = error)]_vars

\* cancel has run on a complete form
C18_Witness == lastEvent = "cancel" /\ Editing /\ isFormValid /\ issued = 0

\* C19: whenever a request is issued the two dates, the credential and the
\* content are all non-empty at that moment.
C19_ValidAtConfirm ==
    [][(issued' = issued + 1)
        => (startDate # <<>> /\ endDate # <<>> /\ password # "" /\ fileContent # "")]_vars

\* C20: a non-empty content in upload mode is the text of the currently
\* referenced file, and a file-read completion changes the content only when
\* the file it read is the referenced file and the entry mode is upload.
C20_ReadIsCurrent ==
    /\ []((entryMode = "upload" /\ fileContent # "")
            => (file # NoFile /\ fileContent = FileText(file)))
    /\ [][\A f \in Files :
            (f \in readers /\ f \notin readers' /\ fileContent' # fileContent)
                => (file = f /\ entryMode = "upload")]_vars

\* the string s is a run of digits that spells the number n
SpellsNumber(s, n) ==
    /\ s # <<>>
    /\ \A i \in 1..Len(s) : IsDigit(s[i])
    /\ DigitsValue(s, Len(s)) = n

\* the wire string w has exactly the three components month, day, year of t
IsWireFormatOf(w, t) ==
    LET parts == Split(w, "/") IN
    /\ Len(parts) = 3
    /\ SpellsNumber(parts[1], t[2])
    /\ SpellsNumber(parts[2], t[3])
    /\ SpellsNumber(parts[3], t[1])

\* C15: for every valid ISO date Y-M-D the wire format sent in a request has
\* exactly three '/'-separated components, month, day, year in this order,
\* whose numeric values are M, D and Y.
C15_WireFormat ==
    \A i \in DOMAIN inflight :
        /\ \A t \in StartCalendarDates :
              startDate = IsoDate(t[1], t[2], t[3])
                  => IsWireFormatOf(inflight[i].payload.start_date, t)
        /\ \A t \in EndCalendarDates :
              endDate = IsoDate(t[1], t[2], t[3])
                  => IsWireFormatOf(inflight[i].payload.end_date, t)

\* a request for 31 October of the year 987 (input value 0987-10-31) is in flight
C15_Witness ==
    /\ inflight # <<>>
    /\ startDate = IsoDate(987, 10, 31)
    /\ inflight[1].payload.start_date = <<"1","0","/","3","1","/","0","9","8","7">>

\* C17: formatDateForDisplay gives the empty string for the empty input and,
\* for an ISO date Y-M-D, the day without leading zeros, " de ", entry M-1 of
\* the 0-based month table (month 1 the first entry, month 12 the last),
\* " de " and the year as entered; shown for both dates in the overlay.
C17_DisplayFormat ==
    OverlayVisible =>
        /\ startDate = <<>> => formatDateForDisplay(startDate) = <<>>
        /\ endDate = <<>> => formatDateForDisplay(endDate) = <<>>
        /\ \A t \in StartCalendarDates :
              startDate = IsoDate(t[1], t[2], t[3])
                  => formatDateForDisplay(startDate) =
                        NumberToString(t[3]) \o <<" ","d","e"," ">> \o months[t[2]] \o <<" ","d","e"," ">>
                            \o PadZero(NumberToString(t[1]), 4)
        /\ startDate = IsoDate(2024, 1, 1)
              => formatDateForDisplay(startDate) = <<"1"," ","d","e"," ","e","n","e","r","o"," ","d","e"," ","2","0","2","4">>
        /\ startDate = IsoDate(2024, 12, 31)
              => formatDateForDisplay(startDate) = <<"3","1"," ","d","e"," ","d","i","c","i","e","m","b","r","e"," ","d","e"," ","2","0","2","4">>
        /\ startDate = Date1 => formatDateForDisplay(startDate) = <<"5"," ","d","e"," ","m","a","r","z","o"," ","d","e"," ","2","0","2","4">>
        /\ endDate = Date2 => formatDateForDisplay(endDate) = <<"3","1"," ","d","e"," ","d","i","c","i","e","m","b","r","e"," ","d","e"," ","2","0","2","4">>

\* the overlay shows "5 de marzo de 2024" for 2024-03-05
C17_Witness ==
    /\ OverlayVisible
    /\ startDate = Date1
    /\ formatDateForDisplay(startDate) = <<"5"," ","d","e"," ","m","a","r","z","o"," ","d","e"," ","2","0","2","4">>


(***************************************************************************)
(* The CSV export of the unmatched records (downloadMiscCSV).  A CSV text  *)
(* is a sequence of one-character strings.  A record is the sequence of    *)
(* its [key, value] entries in key order; a value carries its JavaScript   *)
(* type and the text String() gives for it.                                *)
(***************************************************************************)
Quote == "\""

Comma == ","

Newline == "\n"

StringValue(chars) == [t |-> "string", s |-> chars]

NumberValue(n) == [t |-> "number", s |-> NumberToString(n)]

NullValue == [t |-> "null", s |-> <<"n", "u", "l", "l">>]

UndefinedValue == [t |-> "undefined", s |-> <<"u", "n", "d", "e", "f", "i", "n", "e", "d">>]

\* Object.keys(record)
ObjectKeys(record) == [j \in 1..Len(record) |-> record[j].key]

\* record[header]: undefined when the record has no such key
Get(record, header) ==
    IF \E j \in 1..Len(record) : record[j].key = header
    THEN record[CHOOSE j \in 1..Len(record) : record[j].key = header].value
    ELSE UndefinedValue

\* String(value ?? '')
StringOrEmpty(value) == IF value.t \in {"null", "undefined"} THEN <<>> ELSE value.s

\* str.includes(c)
Includes(str, c) == \E k \in 1..Len(str) : str[k] = c

\* str.replace(/"/g, '""')
RECURSIVE DoubleQuotes(_)
DoubleQuotes(str) ==
    IF str = <<>> THEN <<>>
    ELSE (IF Head(str) = Quote THEN <<Quote, Quote>> ELSE <<Head(str)>>) \o DoubleQuotes(Tail(str))

\* array.join(sep) of an array of texts
RECURSIVE Join(_, _)
Join(parts, sep) ==
    IF parts = <<>> THEN <<>>
    ELSE IF Len(parts) = 1 THEN parts[1]
    ELSE parts[1] \o <<sep>> \o Join(Tail(parts), sep)

\* variant of CsvCell: quotes a cell only when it holds a comma
CsvCellCommaOnly(value) ==
    LET str == StringOrEmpty(value)
    IN  IF Includes(str, Comma) THEN <<Quote>> \o DoubleQuotes(str) \o <<Quote>> ELSE str

\* variant of CsvCell: wraps a cell in quotes without doubling the quotes in it
CsvCellNoDoubling(value) ==
    LET str == StringOrEmpty(value)
    IN  IF Includes(str, Comma) \/ Includes(str, Quote)
        THEN <<Quote>> \o str \o <<Quote>>
        ELSE str

\* one cell of a data row
CsvCell(value) ==
    LET str == StringOrEmpty(value)
    IN  IF Includes(str, Comma) \/ Includes(str, Quote)
        THEN <<Quote>> \o DoubleQuotes(str) \o <<Quote>>
        ELSE str

\* csvContent for a non-empty array of records
toCsv(records) ==
    LET headers == ObjectKeys(records[1])
        csvRows == <<Join(headers, Comma)>> \o
                   [i \in 1..Len(records) |->
                       Join([j \in 1..Len(headers) |-> CsvCell(Get(records[i], headers[j]))],
                            Comma)]
    IN  Join(csvRows, Newline)

\* the download button of the results view is rendered
DownloadButtonVisible == ResultsView /\ result[1].unmatched_count > 0

downloadMiscCSV ==
    /\ download' = IF result = <<>> \/ result[1].misc_records = <<>>
                   THEN download
                   ELSE <<toCsv(result[1].misc_records)>>
    /\ lastEvent' = "downloadMiscCSV"
    /\ UNCHANGED <<formVars, isLoading, result, error, showConfirmation,
                   readers, inflight, issued>>

DownloadClick == DownloadButtonVisible /\ downloadMiscCSV

(***************************************************************************)
(* The exporter on bounded tables: a successful response has arrived with  *)
(* some unmatched records, and the user downloads them or starts over.     *)
(***************************************************************************)
MaxRecords == 2

MaxCellLen == 2

CsvChars == {"x", Comma, Quote, Newline}

CellTexts == UNION {[1..k -> CsvChars] : k \in 0..MaxCellLen}

CellValues ==
    {StringValue(str) : str \in CellTexts} \cup {NumberValue(12), NullValue, UndefinedValue}

FillerValues == {StringValue(<<"x">>), StringValue(<<Comma>>)}

KeyA == <<"a">>

KeyB == <<"b">>

KeyWithComma == <<"a", Comma, "b">>

KeyLists == {<<KeyA>>, <<KeyA, KeyB>>, <<KeyWithComma>>, <<>>}

\* the record with the given keys and values, in that key order
Record(keys, values) == [j \in 1..Len(keys) |-> [key |-> keys[j], value |-> values[j]]]

Reverse(seq) == [j \in 1..Len(seq) |-> seq[Len(seq) + 1 - j]]

\* tables over one key list: the first cell ranges over every cell value, the
\* others over the filler values; later records may list their keys in the
\* opposite order
TablesOver(keys) ==
    IF keys = <<>>
    THEN {[i \in 1..n |-> <<>>] : n \in 1..MaxRecords}
    ELSE UNION { { [i \in 1..n |->
                      LET values == [j \in 1..Len(keys) |->
                                        IF i = 1 /\ j = 1 THEN first ELSE rest[i][j]]
                      IN  IF i > 1 /\ flip
                          THEN Reverse(Record(keys, values))
                          ELSE Record(keys, values)] :
                   first \in CellValues,
                   rest \in [1..n -> [1..Len(keys) -> FillerValues]],
                   flip \in BOOLEAN }
               : n \in 1..MaxRecords }

\* the records of the worked example: {a: 1, b: "x,y"}, {a: 2, b: 'He said "hi"'}
ExampleTable ==
    << Record(<<KeyA, KeyB>>, <<NumberValue(1), StringValue(<<"x", ",", "y">>)>>),
       Record(<<KeyA, KeyB>>,
              <<NumberValue(2),
                StringValue(<<"H", "e", " ", "s", "a", "i", "d", " ",
                              Quote, "h", "i", Quote>>)>>) >>

Tables == UNION {TablesOver(keys) : keys \in KeyLists} \cup {ExampleTable}

CsvBodies ==
    { [status |-> "success", message |-> <<>>,
       unmatched_count |-> Len(table), misc_records |-> table] : table \in Tables }
    \cup { [status |-> "success", message |-> <<>>,
            unmatched_count |-> 1, misc_records |-> <<>>] }

InitCsv ==
    /\ startDate = Date1
    /\ endDate = Date2
    /\ password = "secret"
    /\ file = NoFile
    /\ fileContent = "typed rows"
    /\ isLoading = FALSE
    /\ result \in {<<body>> : body \in CsvBodies}
    /\ error = <<>>
    /\ entryMode = "paste"
    /\ showConfirmation = FALSE
    /\ readers = {}
    /\ inflight = <<>>
    /\ issued = 1
    /\ lastEvent = "jsonSettled"
    /\ download = <<>>

NextCsv == DownloadClick \/ ResetClick

SpecCsv == InitCsv /\ [][NextCsv]_vars

(***************************************************************************)
(* Reading a CSV text back by the writer's quoting rules: rows are split   *)
(* on newlines, fields on the commas outside quotes, and a doubled quote   *)
(* inside a quoted field stands for one quote.                             *)
(***************************************************************************)
RECURSIVE SplitLines(_, _)
SplitLines(text, line) ==
    IF text = <<>> THEN <<line>>
    ELSE IF Head(text) = Newline THEN <<line>> \o SplitLines(Tail(text), <<>>)
    ELSE SplitLines(Tail(text), Append(line, Head(text)))

RECURSIVE ReadFields(_, _, _, _, _)
ReadFields(line, i, field, quoted, fields) ==
    IF i > Len(line) THEN Append(fields, field)
    ELSE IF quoted
    THEN IF line[i] # Quote
         THEN ReadFields(line, i + 1, Append(field, line[i]), TRUE, fields)
         ELSE IF i < Len(line) /\ line[i + 1] = Quote
         THEN ReadFields(line, i + 2, Append(field, Quote), TRUE, fields)
         ELSE ReadFields(line, i + 1, field, FALSE, fields)
    ELSE IF line[i] = Comma
    THEN ReadFields(line, i + 1, <<>>, FALSE, Append(fields, field))
    ELSE IF line[i] = Quote /\ field = <<>>
    THEN ReadFields(line, i + 1, <<>>, TRUE, fields)
    ELSE ReadFields(line, i + 1, Append(field, line[i]), FALSE, fields)

ReadCsv(text) ==
    LET lines == SplitLines(text, <<>>)
    IN  [i \in 1..Len(lines) |-> ReadFields(lines[i], 1, <<>>, FALSE, <<>>)]

\* what a faithful reading gives: the keys of the first record, then for each
\* record the text of its value under each of those keys
Cells(records) ==
    LET keys == ObjectKeys(records[1])
    IN  <<keys>> \o
        [i \in 1..Len(records) |->
            [j \in 1..Len(keys) |-> StringOrEmpty(Get(records[i], keys[j]))]]

\* every record has the keys of the first one, and no others
UniformKeys(records) ==
    \A i \in 1..Len(records) :
        {records[i][j].key : j \in 1..Len(records[i])} =
        {records[1][j].key : j \in 1..Len(records[1])}

\* the records of the response whose export is in download, if they are still
\* on screen
Exported == download # <<>> /\ result # <<>> /\ result[1].misc_records # <<>>

(***************************************************************************)
(* C13: the exported text is the first record's keys joined by commas,     *)
(* then for each record, in order, a newline and the record's cells under  *)
(* those keys joined by commas; a cell is the text of the value (empty for *)
(* null and undefined), wrapped in quotes with its quotes doubled when it  *)
(* holds a comma or a quote and raw otherwise.  So the text has one row    *)
(* per record after the header row; for the records {a: 1, b: "x,y"} and   *)
(* {a: 2, b: 'He said "hi"'} it is the three lines a,b  1,"x,y"  and       *)
(* 2,"He said ""hi""".                                                     *)
(***************************************************************************)
RECURSIVE Flatten(_)
Flatten(pieces) == IF pieces = <<>> THEN <<>> ELSE Head(pieces) \o Flatten(Tail(pieces))

\* pieces separated by sep, each piece followed by sep except the last
Separated(pieces, sep) ==
    Flatten([k \in 1..Len(pieces) |-> IF k < Len(pieces) THEN pieces[k] \o <<sep>> ELSE pieces[k]])

ExpectedCell(value) ==
    LET text == IF value.t = "null" \/ value.t = "undefined" THEN <<>> ELSE value.s
        special == \E k \in 1..Len(text) : text[k] = Comma \/ text[k] = Quote
    IN  IF special
        THEN <<Quote>> \o Flatten([k \in 1..Len(text) |->
                                     IF text[k] = Quote THEN <<Quote, Quote>> ELSE <<text[k]>>])
             \o <<Quote>>
        ELSE text

ExpectedRows(records) ==
    LET keys == ObjectKeys(records[1])
    IN  <<Separated(keys, Comma)>> \o
        [i \in 1..Len(records) |->
            Separated([j \in 1..Len(keys) |-> ExpectedCell(Get(records[i], keys[j]))], Comma)]

ExampleText ==
    << "a", ",", "b", Newline,
       "1", ",", Quote, "x", ",", "y", Quote, Newline,
       "2", ",", Quote, "H", "e", " ", "s", "a", "i", "d", " ",
                 Quote, Quote, "h", "i", Quote, Quote, Quote >>

C14_RoundTrip ==
    (Exported /\ UniformKeys(result[1].misc_records)) =>
        ReadCsv(download[1]) = Cells(result[1].misc_records)

(***************************************************************************)
(* C14 amended: the round trip holds for every non-empty sequence of       *)
(* records with a uniform, non-empty key set whose keys hold no comma,     *)
(* quote or newline and whose stringified values hold no newline.          *)
(***************************************************************************)
PlainKeys(records) ==
    /\ records[1] # <<>>
    /\ \A j \in 1..Len(records[1]) :
           /\ ~Includes(records[1][j].key, Comma)
           /\ ~Includes(records[1][j].key, Quote)
           /\ ~Includes(records[1][j].key, Newline)

SingleLineValues(records) ==
    \A i \in 1..Len(records) : \A j \in 1..Len(records[i]) :
        ~Includes(StringOrEmpty(records[i][j].value), Newline)

C14_RoundTripSingleLine ==
    (/\ Exported
     /\ UniformKeys(result[1].misc_records)
     /\ PlainKeys(result[1].misc_records)
     /\ SingleLineValues(result[1].misc_records)) =>
        ReadCsv(download[1]) = Cells(result[1].misc_records)

C14_Witness ==
    /\ Exported
    /\ lastEvent = "downloadMiscCSV"
    /\ UniformKeys(result[1].misc_records)
    /\ PlainKeys(result[1].misc_records)
    /\ SingleLineValues(result[1].misc_records)
    /\ Len(result[1].misc_records) = 2
    /\ Len(result[1].misc_records[1]) = 2
    /\ result[1].misc_records[1][1].value = StringValue(<<Quote, Comma>>)
    /\ ReadCsv(download[1]) = Cells(result[1].misc_records)

=============================================================================
